---- MODULE Spec2Model ----
(***************************************************************************)
(* Model of torch/distributed/checkpoint/state_dict_saver.py: the          *)
(* two-phase collective save (_save_state_dict), its synchronous entry     *)
(* point (save) and its asynchronous entry point (async_save).             *)
(*                                                                         *)
(* Every rank is one process running the same call (SPMD).  On the         *)
(* synchronous path the orchestration runs on the caller's thread, on the  *)
(* asynchronous path on the worker thread of the rank's executor.          *)
(***************************************************************************)
EXTENDS Integers, Sequences, FiniteSets, TLC

(* ------------------------------ bounds --------------------------------- *)

\* Largest number of ranks in the process group.
MaxRanks == 2

\* Number of mutations the callers make to their original state after
\* async_save has returned (all ranks together).
MaxMutations == 1

(* --------------------------- data model -------------------------------- *)

Null == [null |-> TRUE]

Keys == {"a", "b"}

\* Storage cells of one rank: the caller's live data ("oa" is the state held
\* by the stateful object under key a, "ob" the plain value under key b) and
\* the host-resident copies made by staging ("sa", "sb").
OrigCells == {"oa", "ob"}
StagedCells == {"sa", "sb"}
Cells == OrigCells \cup StagedCells

StagedCellOf(c) == IF c = "oa" THEN "sa" ELSE IF c = "ob" THEN "sb" ELSE c

\* Original cells start at 1 and each mutation adds one; a staged cell holds 0
\* until the staging copy fills it.
Values == 0..(MaxMutations + 1)

\* The state_dict the caller passes: {a: statefulObj, b: value}.
CallerStateDict ==
    [k \in Keys |-> IF k = "a" THEN [kind |-> "stateful", cell |-> "oa"]
                               ELSE [kind |-> "plain", cell |-> "ob"]]

WriterKinds == {"none", "inferable", "plain", "stager", "stager_sync"}

IsAsyncStager(w) == w \in {"stager", "stager_sync"}

synchronize_after_execute(w) == w = "stager_sync"

\* A Stager that asks for synchronize() returns from stage with its copy to
\* host memory still in flight.
StageIsAsynchronous(w) == IsAsyncStager(w) /\ synchronize_after_execute(w)

Faults == {"none", "write_data", "finish"}

VARIABLES
    cfg,                \* the call's arguments and environment, fixed per run
    heap,               \* heap[r][c]: value stored in cell c of rank r
    copy_pending,       \* copy_pending[r]: staging copy started, not complete
    staged_at,          \* staged_at[r]: values of the original cells at staging
    cpc,                \* cpc[r]: position of the caller of save / async_save
    ctrace,             \* ctrace[r]: steps async_save performed, in order
    ret,                \* ret[r]: what the entry point gave back to the caller
    cpu_state_dict,     \* cpu_state_dict[r]: the staged state (async_save)
    executor,           \* executor[r]: "none", "running" or "shutdown"
    handle,             \* handle[r]: the Future returned by executor.submit
    tpc,                \* tpc[r]: position of the save orchestration
    state_dict,         \* state_dict[r]: argument of _save_state_dict
    trace,              \* trace[r]: planner / writer steps run on rank r
    setup_flags,        \* setup_flags[r]: is_coordinator values the hooks got
    global_metatadata,  \* global_metatadata[r]: the closure variable
    central_plan,       \* central_plan[r]: result of reduce_scatter
    written,            \* written[r]: the values write_data persisted
    gathered,           \* "plan" collective: local values at the coordinator
    scattered,          \* "plan" collective: the coordinator's result
    write_results,      \* "write" collective: local values at the coordinator
    broadcast,          \* "write" collective: the coordinator's result
    next_call,          \* next_call[r]: a later async_save on the same executor
    resolve_input,      \* argument of a direct _stateful_to_state_dict call
    stateful_state_dict \* the mapping that call returned

vars == <<cfg, heap, copy_pending, staged_at, cpc, ctrace, ret, cpu_state_dict,
          executor, handle, tpc, state_dict, trace, setup_flags,
          global_metatadata, central_plan, written, gathered, scattered,
          write_results, broadcast, next_call, resolve_input,
          stateful_state_dict>>

callerVars == <<cpc, ctrace, ret, cpu_state_dict>>
dataVars == <<heap, copy_pending, staged_at>>
collVars == <<gathered, scattered, write_results, broadcast>>
resolveVars == <<resolve_input, stateful_state_dict>>

Ranks == 0..(cfg.n - 1)

(* ------------------- planner and storage writer ------------------------ *)

\* A plan names the rank that made it, the items it covers (key and kind of
\* value) and the last planner / writer hook that handled it.
create_local_plan(sd, rank) ==
    [rank |-> rank, items |-> [k \in Keys |-> sd[k].kind], stage |-> "local"]

prepare_local_plan(plan) == [plan EXCEPT !.stage = "prepared"]

create_global_plan(all_plans) ==
    [plans |-> [i \in DOMAIN all_plans |->
                  [all_plans[i] EXCEPT !.stage = "global"]],
     metadata |-> [count |-> Len(all_plans),
                   items |-> [i \in DOMAIN all_plans |-> all_plans[i].items]]]

prepare_global_plan(all_plans) ==
    [i \in DOMAIN all_plans |-> [all_plans[i] EXCEPT !.stage = "global_prepared"]]

finish_plan(plan) == [plan EXCEPT !.stage = "final"]

WriteResult(plan) == [rank |-> plan.rank, stage |-> plan.stage]

(* ------------------------ collective layer ----------------------------- *)

\* _DistWrapper(group, use_dist, coordinator_rank).is_coordinator
is_coordinator(use_dist, rank, coordinator_rank) ==
    IF use_dist THEN rank = coordinator_rank ELSE TRUE

\* The sequence handed to the global step of a collective: index = rank.
GatherSeq(box) == [i \in 1..cfg.n |-> box[i - 1]]

AllPresent(box) == \A q \in Ranks : box[q] # Null

(* ----------------------- pure parts of the code ------------------------ *)

\* _stateful_to_state_dict calling state_dict() on every element.
stateful_to_state_dict_every_elem(sd) ==
    [k \in DOMAIN sd |-> [kind |-> "snapshot", cell |-> sd[k].cell]]

\* _stateful_to_state_dict
stateful_to_state_dict(sd) ==
    [k \in DOMAIN sd |->
        IF sd[k].kind = "stateful"
        THEN [kind |-> "snapshot", cell |-> sd[k].cell]
        ELSE sd[k]]

\* _offload_state_dict_to_cpu: the same mapping over host-resident copies.
offload_state_dict_to_cpu(sd) ==
    [k \in DOMAIN sd |-> [sd[k] EXCEPT !.cell = StagedCellOf(sd[k].cell)]]

\* AsyncStager.stage: a copy of the logical state over independent data.
stage(sd) ==
    [k \in DOMAIN sd |-> [sd[k] EXCEPT !.cell = StagedCellOf(sd[k].cell)]]

\* async_save, lines 265 and 267: the state handed to the staging step.
stage_arg(writer, sd) ==
    IF IsAsyncStager(writer) THEN sd ELSE stateful_to_state_dict(sd)

\* async_save, lines 264-267: the state handed to the background save.
staged_state_dict(writer, sd) ==
    IF IsAsyncStager(writer)
    THEN stage(stage_arg(writer, sd))
    ELSE offload_state_dict_to_cpu(stage_arg(writer, sd))

\* cpu_backend_ok without the assertion.
cpu_backend_ok_unchecked(dist_initialized, pg_cpu) == TRUE

\* async_save, lines 212-216: the CPU-backend precondition.
cpu_backend_ok(dist_initialized, pg_cpu) ==
    IF dist_initialized THEN pg_cpu ELSE TRUE

\* save, line 136
no_dist_of(dist_initialized) == ~dist_initialized

\* _storage_setup(storage_writer, checkpoint_id, reader=False) succeeds
storage_setup_ok(writer) == writer # "none"

\* local_step telling every rank that it is the coordinator.
local_step_all_coordinators(sd, rank, is_coord) ==
    [plan |-> prepare_local_plan(create_local_plan(sd, rank)),
     planner_flag |-> TRUE,
     writer_flag |-> TRUE,
     steps |-> <<"set_up_planner", "set_up_storage_writer",
                 "create_local_plan", "prepare_local_plan">>]

\* _save_state_dict.local_step
local_step(sd, rank, is_coord) ==
    [plan |-> prepare_local_plan(create_local_plan(sd, rank)),
     planner_flag |-> is_coord,
     writer_flag |-> is_coord,
     steps |-> <<"set_up_planner", "set_up_storage_writer",
                 "create_local_plan", "prepare_local_plan">>]

\* global_step dropping the result of prepare_global_plan.
global_step_unprepared(all_local_plans) ==
    [plans |-> create_global_plan(all_local_plans).plans,
     metadata |-> create_global_plan(all_local_plans).metadata,
     steps |-> <<"create_global_plan", "prepare_global_plan">>]

\* _save_state_dict.global_step
global_step(all_local_plans) ==
    [plans |-> prepare_global_plan(create_global_plan(all_local_plans).plans),
     metadata |-> create_global_plan(all_local_plans).metadata,
     steps |-> <<"create_global_plan", "prepare_global_plan">>]

\* finish_checkpoint returning a value built from the write results.
finish_checkpoint_from_results(metadata, all_results) ==
    [count |-> Len(all_results), items |-> all_results]

\* _save_state_dict.finish_checkpoint: the value it returns
finish_checkpoint(metadata, all_results) == metadata

\* save passing state_dict on without resolving stateful objects.
save_state_dict_arg_unresolved(sd) == sd

\* save, line 148: the state_dict argument of _save_state_dict
save_state_dict_arg(sd) == stateful_to_state_dict(sd)

\* write_data calling the storage writer before finish_plan.
write_steps_early == <<"write_data", "finish_plan">>

\* _save_state_dict.write_data, lines 333-334: the hooks in call order
write_steps == <<"finish_plan", "write_data">>

\* save passes coordinator_rank by default
coordinator_rank == 0

Err(name) == [error |-> name]

(* ------------------------------ Init ----------------------------------- *)

\* Every call the model covers: which entry point every rank calls, in what
\* environment, with what writer, whether the caller passes its own executor
\* and where the storage writer fails.
Calls ==
    { c \in [n : 1..MaxRanks,
             entry : {"save", "async_save", "save_state_dict"},
             dist_initialized : BOOLEAN,
             pg_cpu : BOOLEAN,
             writer : WriterKinds,
             executor_supplied : BOOLEAN,
             fault : Faults,
             fault_rank : 0..(MaxRanks - 1)] :
        /\ c.fault_rank \in {0, c.n - 1}
        /\ (~c.dist_initialized => c.n = 1)
        /\ (c.fault \in {"none", "finish"} => c.fault_rank = 0)
        /\ (c.executor_supplied => c.entry = "async_save") }

\* save and async_save with the executor async_save creates itself.
Configs ==
    { c \in Calls : c.entry \in {"save", "async_save"} /\ ~c.executor_supplied }

\* The state before the call: its configuration is one of C and the mapping
\* a direct _stateful_to_state_dict call is given is one of A.
StartState(C, A) ==
    /\ cfg \in C
    /\ resolve_input \in A
    /\ stateful_state_dict = Null
    /\ next_call = [r \in Ranks |-> "none"]
    /\ heap = [r \in Ranks |-> [c \in Cells |-> IF c \in OrigCells THEN 1 ELSE 0]]
    /\ copy_pending = [r \in Ranks |-> FALSE]
    /\ staged_at = [r \in Ranks |-> Null]
    /\ cpc = [r \in Ranks |-> "start"]
    /\ ctrace = [r \in Ranks |-> <<>>]
    /\ ret = [r \in Ranks |-> Null]
    /\ cpu_state_dict = [r \in Ranks |-> Null]
    /\ executor = [r \in Ranks |-> "none"]
    /\ handle = [r \in Ranks |-> [state |-> "none", value |-> Null]]
    /\ tpc = [r \in Ranks |-> "idle"]
    /\ state_dict = [r \in Ranks |-> Null]
    /\ trace = [r \in Ranks |-> <<>>]
    /\ setup_flags = [r \in Ranks |-> [planner |-> {}, writer |-> {}]]
    /\ global_metatadata = [r \in Ranks |-> Null]
    /\ central_plan = [r \in Ranks |-> Null]
    /\ written = [r \in Ranks |-> Null]
    /\ gathered = [r \in Ranks |-> Null]
    /\ scattered = Null
    /\ write_results = [r \in Ranks |-> Null]
    /\ broadcast = Null

Init == StartState(Configs, {Null})

(* --------------------------- bookkeeping ------------------------------- *)

IsAsync == cfg.entry = "async_save"

\* save_state_dict, line 30: no_dist is a parameter, False unless passed.
no_dist_default == FALSE

IsLegacy == cfg.entry = "save_state_dict"

\* The no_dist argument of _save_state_dict (lines 47 and 151).
no_dist ==
    IF IsLegacy THEN no_dist_default ELSE no_dist_of(cfg.dist_initialized)

use_dist == ~no_dist

\* _DistWrapper(process_group, use_dist, coordinator_rank) can be built:
\* with use_dist it needs the process group of an initialized backend.
dist_wrapper_ok(with_dist, dist_initialized) == with_dist => dist_initialized

\* _save_state_dict treating the rank as coordinator only when distributed.
IsCoordinator_dist_only(r) == use_dist /\ r = coordinator_rank

IsCoordinator(r) == is_coordinator(use_dist, r, coordinator_rank)

\* The copy of the original cells into the staged cells of rank r.
CopyToHost(h) == [c \in Cells |-> IF c = "sa" THEN h["oa"]
                                  ELSE IF c = "sb" THEN h["ob"] ELSE h[c]]

\* The worker swallowing the exception: the Future is resolved with it.
TaskEnds_swallowed(r, o) ==
    /\ tpc' = [tpc EXCEPT ![r] = IF o.kind = "value" THEN "done" ELSE "failed"]
    /\ IF IsAsync
       THEN /\ handle' = [handle EXCEPT ![r] =
                            [state |-> "resolved", value |-> o.value]]
            /\ executor' = [executor EXCEPT ![r] = "shutdown"]
            /\ UNCHANGED <<cpc, ret>>
       ELSE /\ cpc' = [cpc EXCEPT ![r] = "returned"]
            /\ ret' = [ret EXCEPT ![r] = o]
            /\ UNCHANGED <<handle, executor>>

\* The orchestration on rank r ends with outcome o: save returns or raises
\* on the caller's thread, or the Future is set and its done callback
\* (async_save, line 278) shuts the executor down.
TaskEnds(r, o) ==
    /\ tpc' = [tpc EXCEPT ![r] = IF o.kind = "value" THEN "done" ELSE "failed"]
    /\ IF IsAsync
       THEN /\ handle' = [handle EXCEPT ![r] =
                            [state |-> IF o.kind = "value" THEN "resolved"
                                                           ELSE "failed",
                             value |-> o.value]]
            /\ executor' = [executor EXCEPT ![r] = "shutdown"]
            /\ UNCHANGED <<cpc, ret>>
       ELSE /\ cpc' = [cpc EXCEPT ![r] = IF o.kind = "value" THEN "returned"
                                                             ELSE "raised"]
            /\ ret' = [ret EXCEPT ![r] = o]
            /\ UNCHANGED <<handle, executor>>

Value(v) == [kind |-> "value", value |-> v]
Raise(name) == [kind |-> "raise", value |-> Err(name)]

(* --------------------------- async_save -------------------------------- *)

\* async_save, lines 210-278: the precondition, staging on the caller's
\* thread, submission of save to the executor and the done callback.
AsyncSaveCall(r) ==
    /\ IsAsync
    /\ cpc[r] = "start"
    /\ IF ~cpu_backend_ok(cfg.dist_initialized, cfg.pg_cpu)
       THEN /\ cpc' = [cpc EXCEPT ![r] = "raised"]
            /\ ret' = [ret EXCEPT ![r] = Raise("AssertionError")]
            /\ ctrace' = [ctrace EXCEPT ![r] = <<"assert">>]
            /\ UNCHANGED <<cpu_state_dict, heap, copy_pending, staged_at,
                           executor, handle, tpc>>
       ELSE /\ cpu_state_dict' = [cpu_state_dict EXCEPT ![r] =
                                    staged_state_dict(cfg.writer, CallerStateDict)]
            /\ staged_at' = [staged_at EXCEPT ![r] =
                               [c \in OrigCells |-> heap[r][c]]]
            /\ IF StageIsAsynchronous(cfg.writer)
               THEN /\ copy_pending' = [copy_pending EXCEPT ![r] = TRUE]
                    /\ UNCHANGED heap
               ELSE /\ heap' = [heap EXCEPT ![r] = CopyToHost(heap[r])]
                    /\ UNCHANGED copy_pending
            /\ executor' = [executor EXCEPT ![r] = "running"]
            /\ handle' = [handle EXCEPT ![r] = [state |-> "pending", value |-> Null]]
            /\ tpc' = [tpc EXCEPT ![r] = "queued"]
            /\ ctrace' = [ctrace EXCEPT ![r] =
                            (IF cfg.dist_initialized THEN <<"assert">> ELSE <<>>)
                            \o <<"stage", "submit", "add_done_callback">>]
            /\ cpc' = [cpc EXCEPT ![r] = "submitted"]
            /\ UNCHANGED ret
    /\ UNCHANGED <<cfg, next_call, resolveVars,
                   state_dict, trace, setup_flags, global_metatadata,
                   central_plan, written, collVars>>

\* The Stager's asynchronous copy to host memory completes.
CopyComplete(r) ==
    /\ copy_pending[r]
    /\ copy_pending' = [copy_pending EXCEPT ![r] = FALSE]
    /\ heap' = [heap EXCEPT ![r] = CopyToHost(heap[r])]
    /\ UNCHANGED <<cfg, next_call, resolveVars,
                   staged_at, callerVars, executor, handle, tpc, state_dict,
                   trace, setup_flags, global_metatadata, central_plan, written,
                   collVars>>

\* async_save synchronizing with every Stager, whatever its flag.
must_synchronize_any_stager(writer) == IsAsyncStager(writer)

\* async_save, line 280: does the caller have to synchronize?
must_synchronize(writer) ==
    IsAsyncStager(writer) /\ synchronize_after_execute(writer)

\* async_save, lines 281-283: the effect of synchronize() and return f.
ReturnFuture(r) ==
    /\ ctrace' = [ctrace EXCEPT ![r] =
                    @ \o (IF must_synchronize(cfg.writer)
                          THEN <<"synchronize">> ELSE <<>>)
                      \o <<"return">>]
    /\ ret' = [ret EXCEPT ![r] = [kind |-> "handle", value |-> Null]]
    /\ cpc' = [cpc EXCEPT ![r] = "returned"]
    /\ UNCHANGED <<cfg, next_call, resolveVars,
                   dataVars, cpu_state_dict, executor, handle, tpc,
                   state_dict, trace, setup_flags, global_metatadata,
                   central_plan, written, collVars>>

\* async_save waiting for the Future before it returns it.
AsyncReturn_after_result(r) ==
    /\ IsAsync
    /\ cpc[r] = "submitted"
    /\ must_synchronize(cfg.writer) => ~copy_pending[r]
    /\ handle[r].state # "pending"
    /\ ReturnFuture(r)

\* async_save, lines 280-283: synchronize() if the Stager asks for it (it
\* returns once the staging copy is complete), then return the Future.
AsyncReturn(r) ==
    /\ IsAsync
    /\ cpc[r] = "submitted"
    /\ must_synchronize(cfg.writer) => ~copy_pending[r]
    /\ ReturnFuture(r)

\* Mutations made so far: every original cell starts at 1.
RECURSIVE SumOver(_, _)
SumOver(f, S) ==
    IF S = {} THEN 0
    ELSE LET x == CHOOSE y \in S : TRUE IN f[x] + SumOver(f, S \ {x})

Mutations ==
    SumOver([r \in Ranks |-> (heap[r]["oa"] - 1) + (heap[r]["ob"] - 1)], Ranks)

\* The caller goes on training: it changes the data of its original state.
Mutate(r, c) ==
    /\ IsAsync
    /\ cpc[r] = "returned"
    /\ Mutations < MaxMutations
    /\ heap' = [heap EXCEPT ![r][c] = @ + 1]
    /\ UNCHANGED <<cfg, next_call, resolveVars,
                   copy_pending, staged_at, callerVars, executor, handle,
                   tpc, state_dict, trace, setup_flags, global_metatadata,
                   central_plan, written, collVars>>

(* ----------------------- save / _save_state_dict ----------------------- *)

\* save_state_dict, lines 39-49: the steps before _save_state_dict.
legacy_steps == <<"reset">>

\* save_state_dict, line 44: the state_dict argument of _save_state_dict
legacy_state_dict_arg(sd) == sd

\* save, lines 134-153, up to the point where _save_state_dict blocks in
\* reduce_scatter: no_dist, _storage_setup, _stateful_to_state_dict, then
\* _DistWrapper, local_step and the gather of the local plan (lines 306-329).
\* It runs on the caller's thread (save) or on the executor's worker
\* (async_save, which submitted it with cpu_state_dict).  save_state_dict
\* (lines 39-50) resets the writer and calls _save_state_dict directly.
SaveStart(r) ==
    /\ \/ ~IsAsync /\ cpc[r] = "start"
       \/ IsAsync /\ tpc[r] = "queued"
    /\ IF ~IsLegacy /\ ~storage_setup_ok(cfg.writer)
       THEN /\ TaskEnds(r, Raise("storage_setup"))
            /\ UNCHANGED <<state_dict, trace, setup_flags, gathered>>
       ELSE IF ~dist_wrapper_ok(use_dist, cfg.dist_initialized)
       THEN /\ TaskEnds(r, Raise("dist_uninitialized"))
            /\ trace' = [trace EXCEPT ![r] = @ \o legacy_steps]
            /\ UNCHANGED <<state_dict, setup_flags, gathered>>
       ELSE LET input == IF IsAsync THEN cpu_state_dict[r] ELSE CallerStateDict
                sd == IF IsLegacy THEN legacy_state_dict_arg(input)
                                  ELSE save_state_dict_arg(input)
                pre == IF IsLegacy THEN legacy_steps ELSE <<>>
                ls == local_step(sd, r, IsCoordinator(r))
            IN  /\ state_dict' = [state_dict EXCEPT ![r] = sd]
                /\ trace' = [trace EXCEPT ![r] = @ \o pre \o ls.steps]
                /\ setup_flags' = [setup_flags EXCEPT ![r] =
                                     [planner |-> @.planner \cup {ls.planner_flag},
                                      writer |-> @.writer \cup {ls.writer_flag}]]
                /\ gathered' = [gathered EXCEPT ![r] = ls.plan]
                /\ tpc' = [tpc EXCEPT ![r] = "plan_wait"]
                /\ cpc' = [cpc EXCEPT ![r] = IF IsAsync THEN @ ELSE "in_save"]
                /\ UNCHANGED <<ret, handle, executor>>
    /\ UNCHANGED <<cfg, next_call, resolveVars,
                   dataVars, ctrace, cpu_state_dict, global_metatadata,
                   central_plan, written, scattered, write_results, broadcast>>

\* global_step without `nonlocal`: the metadata stays in a local variable.
GlobalStep_no_nonlocal(r) ==
    /\ IsCoordinator(r)
    /\ tpc[r] = "plan_wait"
    /\ AllPresent(gathered)
    /\ scattered = Null
    /\ LET gs == global_step(GatherSeq(gathered))
       IN  /\ trace' = [trace EXCEPT ![r] = @ \o gs.steps]
           /\ scattered' = [plans |-> gs.plans]
    /\ UNCHANGED <<cfg, next_call, resolveVars, dataVars, callerVars,
                   executor, handle, tpc, state_dict, setup_flags,
                   global_metatadata, central_plan, written, gathered,
                   write_results, broadcast>>

\* reduce_scatter on the coordinator: every local plan has been gathered;
\* global_step (lines 321-327) runs and its result is scattered.
GlobalStep(r) ==
    /\ IsCoordinator(r)
    /\ tpc[r] = "plan_wait"
    /\ AllPresent(gathered)
    /\ scattered = Null
    /\ LET gs == global_step(GatherSeq(gathered))
       IN  /\ global_metatadata' = [global_metatadata EXCEPT ![r] = gs.metadata]
           /\ trace' = [trace EXCEPT ![r] = @ \o gs.steps]
           /\ scattered' = [plans |-> gs.plans]
    /\ UNCHANGED <<cfg, next_call, resolveVars,
                   dataVars, callerVars, executor, handle, tpc, state_dict,
                   setup_flags, central_plan, written, gathered, write_results,
                   broadcast>>

\* write_data handing in its results without all_writes.wait().
WriteDataStart_no_wait(r) ==
    /\ tpc[r] = "plan_wait"
    /\ scattered # Null
    /\ central_plan' = [central_plan EXCEPT ![r] = scattered.plans[r + 1]]
    /\ written' = [written EXCEPT ![r] =
                     [k \in Keys |-> heap[r][state_dict[r][k].cell]]]
    /\ trace' = [trace EXCEPT ![r] = @ \o write_steps]
    /\ write_results' = [write_results EXCEPT ![r] =
                           WriteResult(finish_plan(scattered.plans[r + 1]))]
    /\ tpc' = [tpc EXCEPT ![r] = "write_wait"]
    /\ UNCHANGED <<cfg, next_call, resolveVars,
                   dataVars, callerVars, executor, handle, state_dict,
                   setup_flags, global_metatadata, gathered, scattered,
                   broadcast>>

\* reduce_scatter returns central_plan (line 329); all_reduce calls
\* write_data (lines 331-334): finish_plan, then storage_writer.write_data,
\* which reads the data of state_dict.  A staged cell whose copy is still in
\* flight holds what the buffer held before the copy.
WriteDataStart(r) ==
    /\ tpc[r] = "plan_wait"
    /\ scattered # Null
    /\ central_plan' = [central_plan EXCEPT ![r] = scattered.plans[r + 1]]
    /\ written' = [written EXCEPT ![r] =
                     [k \in Keys |-> heap[r][state_dict[r][k].cell]]]
    /\ trace' = [trace EXCEPT ![r] = @ \o write_steps]
    /\ tpc' = [tpc EXCEPT ![r] = "writing"]
    /\ UNCHANGED <<cfg, next_call, resolveVars,
                   dataVars, callerVars, executor, handle, state_dict,
                   setup_flags, global_metatadata, collVars>>

\* write_data, lines 336-337: all_writes.wait() and all_writes.value(); the
\* write results are then gathered by all_reduce.  A failed write raises.
WriteDataWait(r) ==
    /\ tpc[r] = "writing"
    /\ IF cfg.fault = "write_data" /\ cfg.fault_rank = r
       THEN /\ TaskEnds(r, Raise("WriteError"))
            /\ UNCHANGED <<trace, write_results>>
       ELSE /\ trace' = [trace EXCEPT ![r] = @ \o <<"wait", "value">>]
            /\ write_results' = [write_results EXCEPT ![r] =
                                   WriteResult(finish_plan(central_plan[r]))]
            /\ tpc' = [tpc EXCEPT ![r] = "write_wait"]
            /\ UNCHANGED <<cpc, ret, handle, executor>>
    /\ UNCHANGED <<cfg, next_call, resolveVars,
                   dataVars, ctrace, cpu_state_dict, state_dict,
                   setup_flags, global_metatadata, central_plan, written,
                   gathered, scattered, broadcast>>

\* all_reduce on the coordinator: every rank's write results have been
\* gathered; finish_checkpoint (lines 339-342) runs and its result is
\* broadcast.
FinishCheckpoint(r) ==
    /\ IsCoordinator(r)
    /\ tpc[r] = "write_wait"
    /\ AllPresent(write_results)
    /\ broadcast = Null
    /\ IF global_metatadata[r] = Null
       THEN /\ TaskEnds(r, Raise("AssertionError"))
            /\ UNCHANGED <<trace, broadcast>>
       ELSE /\ trace' = [trace EXCEPT ![r] = @ \o <<"finish">>]
            /\ IF cfg.fault = "finish"
               THEN /\ TaskEnds(r, Raise("FinishError"))
                    /\ UNCHANGED broadcast
               ELSE /\ broadcast' = finish_checkpoint(global_metatadata[r],
                                                      GatherSeq(write_results))
                    /\ UNCHANGED <<tpc, cpc, ret, handle, executor>>
    /\ UNCHANGED <<cfg, next_call, resolveVars,
                   dataVars, ctrace, cpu_state_dict, state_dict,
                   setup_flags, global_metatadata, central_plan, written,
                   gathered, scattered, write_results>>

\* all_reduce returns the broadcast value (line 344) and save returns it.
TaskReturn(r) ==
    /\ tpc[r] = "write_wait"
    /\ broadcast # Null
    /\ TaskEnds(r, Value(broadcast))
    /\ UNCHANGED <<cfg, next_call, resolveVars,
                   dataVars, ctrace, cpu_state_dict, state_dict, trace,
                   setup_flags, global_metatadata, central_plan, written,
                   collVars>>

\* A rank blocked in a collective whose peer has failed: the transport may
\* deliver the failure to it (or leave it blocked).
PeerAbort(r) ==
    /\ \/ tpc[r] = "plan_wait" /\ scattered = Null
       \/ tpc[r] = "write_wait" /\ broadcast = Null
    /\ \E q \in Ranks : tpc[q] = "failed"
    /\ TaskEnds(r, Raise("CheckpointException"))
    /\ UNCHANGED <<cfg, next_call, resolveVars,
                   dataVars, ctrace, cpu_state_dict, state_dict, trace,
                   setup_flags, global_metatadata, central_plan, written,
                   collVars>>

(* ------------------------------ Next ----------------------------------- *)

Next ==
    \/ \E r \in Ranks : AsyncSaveCall(r)
    \/ \E r \in Ranks : CopyComplete(r)
    \/ \E r \in Ranks : AsyncReturn(r)
    \/ \E r \in Ranks, c \in OrigCells : Mutate(r, c)
    \/ \E r \in Ranks : SaveStart(r)
    \/ \E r \in Ranks : GlobalStep(r)
    \/ \E r \in Ranks : WriteDataStart(r)
    \/ \E r \in Ranks : WriteDataWait(r)
    \/ \E r \in Ranks : FinishCheckpoint(r)
    \/ \E r \in Ranks : TaskReturn(r)
    \/ \E r \in Ranks : PeerAbort(r)

Spec == Init /\ [][Next]_vars

(* -------------------- a caller-supplied executor ----------------------- *)

\* executor.submit (line 270) on an executor in the given state: a
\* ThreadPoolExecutor refuses new work once shutdown has been called on it.
submit_ok(executor_state) == executor_state # "shutdown"

\* A later async_save on the same rank, given the same executor (line 269
\* keeps a supplied executor).  It stages its own copy of the state, so of
\* this call the model follows only what happens at the executor: submit
\* either queues the save or raises out of async_save.
AsyncSaveAgain(r) ==
    /\ IsAsync
    /\ cfg.executor_supplied
    /\ cpc[r] = "returned"
    /\ next_call[r] = "none"
    /\ next_call' = [next_call EXCEPT ![r] =
                       IF submit_ok(executor[r]) THEN "queued" ELSE "raised"]
    /\ UNCHANGED <<cfg, resolveVars, dataVars, callerVars, executor, handle,
                   tpc, state_dict, trace, setup_flags, global_metatadata,
                   central_plan, written, collVars>>

\* shutdown(wait=False) cancelling the work that is still queued.
NextTaskRuns_cancelled(r) ==
    /\ next_call[r] = "queued"
    /\ executor[r] # "shutdown"
    /\ next_call' = [next_call EXCEPT ![r] = "finished"]
    /\ executor' = [executor EXCEPT ![r] = "shutdown"]
    /\ UNCHANGED <<cfg, resolveVars, dataVars, callerVars, handle, tpc,
                   state_dict, trace, setup_flags, global_metatadata,
                   central_plan, written, collVars>>

\* The save of the later call runs on a worker of the executor and ends; its
\* done callback (line 278) calls executor.shutdown(wait=False).  Work queued
\* before a shutdown(wait=False) is still run.
NextTaskRuns(r) ==
    /\ next_call[r] = "queued"
    /\ next_call' = [next_call EXCEPT ![r] = "finished"]
    /\ executor' = [executor EXCEPT ![r] = "shutdown"]
    /\ UNCHANGED <<cfg, resolveVars, dataVars, callerVars, handle, tpc,
                   state_dict, trace, setup_flags, global_metatadata,
                   central_plan, written, collVars>>

\* async_save with a writer whose staging is the generic offload, with the
\* executor it creates or with one the caller passes in.
RunnerConfigs ==
    { c \in Calls : /\ c.entry = "async_save" /\ c.pg_cpu
                    /\ c.writer \in {"inferable", "plain"} }

InitRunner == StartState(RunnerConfigs, {Null})

NextRunner ==
    \/ \E r \in Ranks : AsyncSaveCall(r)
    \/ \E r \in Ranks : AsyncReturn(r)
    \/ \E r \in Ranks : SaveStart(r)
    \/ \E r \in Ranks : GlobalStep(r)
    \/ \E r \in Ranks : WriteDataStart(r)
    \/ \E r \in Ranks : WriteDataWait(r)
    \/ \E r \in Ranks : FinishCheckpoint(r)
    \/ \E r \in Ranks : TaskReturn(r)
    \/ \E r \in Ranks : PeerAbort(r)
    \/ \E r \in Ranks : AsyncSaveAgain(r)
    \/ \E r \in Ranks : NextTaskRuns(r)

SpecRunner == InitRunner /\ [][NextRunner]_vars

(* ------------------------- save_state_dict ----------------------------- *)

\* save and save_state_dict called with the same explicit storage writer.
LegacyConfigs ==
    { c \in Calls : /\ c.entry \in {"save", "save_state_dict"}
                    /\ c.writer = "plain" /\ c.pg_cpu }

InitLegacy == StartState(LegacyConfigs, {Null})

NextLegacy ==
    \/ \E r \in Ranks : SaveStart(r)
    \/ \E r \in Ranks : GlobalStep(r)
    \/ \E r \in Ranks : WriteDataStart(r)
    \/ \E r \in Ranks : WriteDataWait(r)
    \/ \E r \in Ranks : FinishCheckpoint(r)
    \/ \E r \in Ranks : TaskReturn(r)
    \/ \E r \in Ranks : PeerAbort(r)

SpecLegacy == InitLegacy /\ [][NextLegacy]_vars

(* ------------------ _stateful_to_state_dict called alone ---------------- *)

\* The mappings a caller can hand to _stateful_to_state_dict: any keys, each
\* value a stateful object, an already taken snapshot or a plain value.
ElemKinds == {"stateful", "snapshot", "plain"}

StateDicts ==
    UNION { [S -> [kind : ElemKinds, cell : Cells]] : S \in SUBSET Keys }

ResolveConfigs ==
    { c \in Configs : /\ c.n = 1 /\ c.entry = "save" /\ ~c.dist_initialized
                      /\ ~c.pg_cpu /\ c.writer = "plain" /\ c.fault = "none" }

InitResolve == StartState(ResolveConfigs, StateDicts)

\* _stateful_to_state_dict(state_dict), lines 286-293: it builds and returns
\* a new dict and writes to nothing else.
Resolve ==
    /\ resolve_input # Null
    /\ stateful_state_dict = Null
    /\ stateful_state_dict' = stateful_to_state_dict(resolve_input)
    /\ UNCHANGED <<cfg, next_call, resolve_input, dataVars, callerVars,
                   executor, handle, tpc, state_dict, trace, setup_flags,
                   global_metatadata, central_plan, written, collVars>>

NextResolve == Resolve

SpecResolve == InitResolve /\ [][NextResolve]_vars

(* ------------------------- claim vocabulary ---------------------------- *)

Has(seq, x) == \E i \in DOMAIN seq : seq[i] = x

Count(seq, x) == Cardinality({i \in DOMAIN seq : seq[i] = x})

IsPrefix(s, t) == Len(s) <= Len(t) /\ \A i \in DOMAIN s : s[i] = t[i]

Restrict(seq, S) == SelectSeq(seq, LAMBDA x : x \in S)

\* What the entry point delivered on rank r once the orchestration is done.
Outcome(r) == IF IsAsync THEN handle[r].value ELSE ret[r].value

AllDone == \A r \in Ranks : tpc[r] = "done"

(* ------------------------------ C1 ------------------------------------- *)

\* C1: when the save completes on a rank, the value that rank's call yields
\* is the GlobalMetadata the coordinator computed in create_global_plan from
\* the gathered local plans, hence the same value on every rank.
C1_RankConsistency ==
    \A r \in Ranks :
        tpc[r] = "done" =>
            /\ AllPresent(gathered)
            /\ Outcome(r) = create_global_plan(GatherSeq(gathered)).metadata
            /\ Outcome(r) = global_metatadata[coordinator_rank]
            /\ \A q \in Ranks : tpc[q] = "done" => Outcome(q) = Outcome(r)

C1_Witness == cfg.n >= 2 /\ AllDone

(* ------------------------------ C2 ------------------------------------- *)

\* C2: index i of the sequence handed to the global step is rank i's prepared
\* local plan, and the plan rank i gets back from reduce_scatter (the one it
\* passes to finish_plan) is element i of prepare_global_plan applied to the
\* plans of create_global_plan.
C2_IndexFidelity ==
    \A r \in Ranks :
        /\ gathered[r] # Null =>
              /\ GatherSeq(gathered)[r + 1] =
                    prepare_local_plan(create_local_plan(state_dict[r], r))
              /\ GatherSeq(gathered)[r + 1].rank = r
        /\ central_plan[r] # Null =>
              /\ AllPresent(gathered)
              /\ central_plan[r] =
                    prepare_global_plan(
                        create_global_plan(GatherSeq(gathered)).plans)[r + 1]
              /\ central_plan[r].rank = r
        /\ write_results[r] # Null =>
              write_results[r] = WriteResult(finish_plan(central_plan[r]))

C2_Witness ==
    /\ cfg.n >= 2
    /\ \A r \in Ranks : central_plan[r] # Null /\ write_results[r] # Null

(* ------------------------------ C3 ------------------------------------- *)

\* C3: create_global_plan and prepare_global_plan run on the coordinator
\* only, at most once each and exactly once by the time any rank holds its
\* central plan; the setup hooks get is_coordinator = TRUE on the coordinator
\* and FALSE on every other rank.
C3_OneCoordinator ==
    /\ \A r \in Ranks :
          /\ r # coordinator_rank =>
                /\ ~Has(trace[r], "create_global_plan")
                /\ ~Has(trace[r], "prepare_global_plan")
          /\ Count(trace[r], "create_global_plan") <= 1
          /\ Count(trace[r], "prepare_global_plan") <= 1
          /\ setup_flags[r].planner \subseteq {r = coordinator_rank}
          /\ setup_flags[r].writer \subseteq {r = coordinator_rank}
          /\ Has(trace[r], "set_up_storage_writer") =>
                /\ setup_flags[r].planner = {r = coordinator_rank}
                /\ setup_flags[r].writer = {r = coordinator_rank}
    /\ (\E r \in Ranks : central_plan[r] # Null) =>
          /\ Count(trace[coordinator_rank], "create_global_plan") = 1
          /\ Count(trace[coordinator_rank], "prepare_global_plan") = 1

C3_Witness ==
    /\ cfg.n >= 2
    /\ AllDone
    /\ \A r \in Ranks : setup_flags[r].planner = {r = coordinator_rank}

(* ------------------------------ C4 ------------------------------------- *)

\* C4: storage_writer.finish runs on the coordinator only, at most once, and
\* only when every rank's write_data has been waited on and has handed in
\* its write results; when some rank's write failed it never runs.
C4_FinishAfterAllWrites ==
    /\ \A r \in Ranks :
          Has(trace[r], "finish") =>
              /\ r = coordinator_rank
              /\ Count(trace[r], "finish") = 1
              /\ \A q \in Ranks :
                    /\ Has(trace[q], "wait")
                    /\ Has(trace[q], "value")
                    /\ write_results[q] # Null
                    /\ written[q] # Null
    /\ cfg.fault = "write_data" =>
          \A r \in Ranks : ~Has(trace[r], "finish")

C4_Witness ==
    /\ cfg.n >= 2
    /\ Has(trace[coordinator_rank], "finish")
    /\ \E q \in Ranks : q # coordinator_rank /\ tpc[q] = "write_wait"

\* The run where a write fails and the coordinator has its own results.
C4_WitnessFailedWrite ==
    /\ cfg.fault = "write_data"
    /\ \E q \in Ranks : tpc[q] = "failed"
    /\ write_results[coordinator_rank] # Null

(* ------------------------------ C5 ------------------------------------- *)

RankSteps == {"set_up_planner", "set_up_storage_writer", "create_local_plan",
              "prepare_local_plan", "finish_plan", "write_data"}

RankOrder == <<"set_up_planner", "set_up_storage_writer", "create_local_plan",
               "prepare_local_plan", "finish_plan", "write_data">>

\* C5: on every rank the planner and writer hooks run in the order
\* set_up_planner, set_up_storage_writer, create_local_plan,
\* prepare_local_plan, finish_plan, write_data; create_global_plan starts
\* only when every rank has prepared its local plan, and no rank runs
\* finish_plan or write_data before the global step is complete.
C5_StepOrder ==
    /\ \A r \in Ranks : IsPrefix(Restrict(trace[r], RankSteps), RankOrder)
    /\ Has(trace[coordinator_rank], "create_global_plan") =>
          \A q \in Ranks : Has(trace[q], "prepare_local_plan")
    /\ \A r \in Ranks :
          (Has(trace[r], "finish_plan") \/ Has(trace[r], "write_data")) =>
              Has(trace[coordinator_rank], "prepare_global_plan")

C5_Witness ==
    /\ cfg.n >= 2
    /\ \A r \in Ranks : Restrict(trace[r], RankSteps) = RankOrder

(* ------------------------------ C6 ------------------------------------- *)

\* The values the original state of rank r had when async_save staged it,
\* by key.
StagedValues(r) ==
    [k \in Keys |-> staged_at[r][CallerStateDict[k].cell]]

\* C6: on the async path what the background save writes is the state as it
\* was when async_save staged it, whatever the caller does to the original
\* state afterwards.
C6_StagingIndependence ==
    \A r \in Ranks :
        (IsAsync /\ written[r] # Null) => written[r] = StagedValues(r)

(* ------------------------------ C7 ------------------------------------- *)

\* What save returns for the state dicts sds (one per rank): the metadata of
\* create_global_plan over the prepared local plans of the resolved states.
SaveMetadata(sds) ==
    create_global_plan(
        [i \in 1..cfg.n |->
            prepare_local_plan(
                create_local_plan(stateful_to_state_dict(sds[i - 1]), i - 1))]
    ).metadata

\* The planner and writer steps of a complete save on rank r.
SaveTrace(r) ==
    <<"set_up_planner", "set_up_storage_writer", "create_local_plan",
      "prepare_local_plan">>
    \o (IF IsCoordinator(r)
        THEN <<"create_global_plan", "prepare_global_plan">> ELSE <<>>)
    \o <<"finish_plan", "write_data", "wait", "value">>
    \o (IF IsCoordinator(r) THEN <<"finish">> ELSE <<>>)

\* C7: save returns SaveMetadata of the state it is given after the steps of
\* SaveTrace, and the handle of async_save resolves to SaveMetadata of the
\* staged state after the same steps.
C7_AsyncEquivalence ==
    \A r \in Ranks :
        /\ (~IsAsync /\ cpc[r] = "returned") =>
              /\ ret[r].value = SaveMetadata([q \in Ranks |-> CallerStateDict])
              /\ trace[r] = SaveTrace(r)
        /\ (IsAsync /\ handle[r].state = "resolved") =>
              /\ handle[r].value = SaveMetadata(cpu_state_dict)
              /\ trace[r] = SaveTrace(r)

C7_Witness ==
    /\ IsAsync
    /\ cfg.n >= 2
    /\ IsAsyncStager(cfg.writer)
    /\ \A r \in Ranks : handle[r].state = "resolved"

(* ------------------------------ C8 ------------------------------------- *)

\* C8: once async_save has submitted the task (and, for a Stager that asks
\* for it, the staging copy is complete), it can return whatever the state
\* of the background task: it waits for no plan, write or finish step.
C8_ReturnDoesNotWaitForWrite ==
    \A r \in Ranks :
        (/\ IsAsync
         /\ cpc[r] = "submitted"
         /\ must_synchronize(cfg.writer) => ~copy_pending[r])
            => ENABLED AsyncReturn(r)

\* async_save has returned and the task has not even started.
C8_Witness ==
    \E r \in Ranks :
        /\ cpc[r] = "returned"
        /\ ret[r].kind = "handle"
        /\ handle[r].state = "pending"
        /\ tpc[r] = "queued"
        /\ trace[r] = <<>>

(* ------------------------------ C9 ------------------------------------- *)

\* C9: with no storage writer given and none inferable, save and async_save
\* raise to their caller before any planner, writer or collective step; no
\* handle is returned and the error is not delivered through a handle.
C9_ConfigErrorRaisesToCaller ==
    \A r \in Ranks :
        cfg.writer = "none" =>
            /\ trace[r] = <<>>
            /\ gathered[r] = Null
            /\ cpc[r] # "returned"
            /\ handle[r].state # "failed"

(* ------------------------------ C10 ------------------------------------ *)

\* C10: with a backend initialized and no CPU-capable backend in the group,
\* async_save raises the assertion before it stages anything, creates an
\* executor or submits a task, and returns no handle; with no backend
\* initialized the assertion is not evaluated.
C10_CpuBackendPrecondition ==
    \A r \in Ranks :
        /\ (IsAsync /\ cfg.dist_initialized /\ ~cfg.pg_cpu) =>
              /\ cpu_state_dict[r] = Null
              /\ staged_at[r] = Null
              /\ \A c \in StagedCells : heap[r][c] = 0
              /\ ~copy_pending[r]
              /\ executor[r] = "none"
              /\ handle[r].state = "none"
              /\ tpc[r] = "idle"
              /\ cpc[r] \in {"start", "raised"}
              /\ cpc[r] = "raised" => ret[r] = Raise("AssertionError")
        /\ (IsAsync /\ ~cfg.dist_initialized) =>
              /\ ~Has(ctrace[r], "assert")
              /\ cpc[r] # "raised"

C10_Witness ==
    /\ IsAsync
    /\ cfg.dist_initialized
    /\ ~cfg.pg_cpu
    /\ cfg.n >= 2
    /\ \A r \in Ranks : cpc[r] = "raised" /\ ret[r] = Raise("AssertionError")

\* The run with no backend, a group description without CPU and a handle.
C10_WitnessNoBackend ==
    /\ IsAsync
    /\ ~cfg.dist_initialized
    /\ ~cfg.pg_cpu
    /\ \E r \in Ranks : cpc[r] = "returned" /\ handle[r].state = "resolved"

(* ------------------------------ C11 ------------------------------------ *)

\* The storage writer has raised on rank r: in write_data (the injected
\* fault of that rank) or in finish (on the coordinator).
WriterRaised(r) ==
    \/ /\ cfg.fault = "write_data" /\ cfg.fault_rank = r
       /\ Has(trace[r], "write_data") /\ tpc[r] # "writing"
    \/ cfg.fault = "finish" /\ Has(trace[r], "finish")

WriterError == IF cfg.fault = "finish" THEN "FinishError" ELSE "WriteError"

HandleWellFormed(h) ==
    \/ h.state = "pending" /\ h.value = Null
    \/ h.state = "resolved" /\ h.value # Null /\ "count" \in DOMAIN h.value
    \/ h.state = "failed" /\ "error" \in DOMAIN h.value

\* C11: when the storage writer raises in write_data or finish, save raises
\* that error to its caller and returns no metadata, while async_save has
\* returned (or still returns) its handle normally and the handle is failed
\* with the error; a handle is pending, resolved with metadata or failed with
\* an error, and once resolved or failed it never changes again.
C11_WriteFailureOutcome ==
    /\ [](\A r \in Ranks :
            /\ handle[r].state # "none" => HandleWellFormed(handle[r])
            /\ cfg.fault # "none" => tpc[r] # "done"
            /\ (cfg.fault # "none" /\ ret[r] # Null) => ret[r].kind # "value"
            /\ WriterRaised(r) =>
                 IF IsAsync
                 THEN /\ handle[r] = [state |-> "failed",
                                      value |-> Err(WriterError)]
                      /\ cpc[r] \in {"submitted", "returned"}
                      /\ cpc[r] = "returned" => ret[r].kind = "handle"
                 ELSE /\ cpc[r] = "raised"
                      /\ ret[r] = Raise(WriterError))
    /\ [][\A r \in Ranks :
            handle[r].state \in {"resolved", "failed"} => handle'[r] = handle[r]]_vars

C11_Witness ==
    \E r \in Ranks :
        /\ IsAsync /\ cfg.fault = "write_data" /\ WriterRaised(r)
        /\ cpc[r] = "returned" /\ handle[r].state = "failed"

C11_WitnessSyncFinish ==
    \E r \in Ranks :
        ~IsAsync /\ cfg.fault = "finish" /\ WriterRaised(r) /\ cpc[r] = "raised"

(* ------------------------------ C12 ------------------------------------ *)

\* The steps of a save with one participant, and the metadata it returns
\* for the caller's state_dict {a: statefulObj, b: value}.
OneRankTrace ==
    <<"set_up_planner", "set_up_storage_writer", "create_local_plan",
      "prepare_local_plan", "create_global_plan", "prepare_global_plan",
      "finish_plan", "write_data", "wait", "value", "finish">>

OneRankMetadata ==
    [count |-> 1, items |-> <<[k \in Keys |-> IF k = "a" THEN "snapshot"
                                                        ELSE "plain"]>>]

\* C12: a save with one participant runs the same steps and returns the same
\* metadata whether no backend is initialized (local execution) or the
\* collective path runs with a group of one: local step, global step on the
\* one-element plan sequence, finish_plan, write_data, finish, with the
\* participant told that it is the coordinator.
C12_SingleParticipant ==
    \A r \in Ranks :
        (cfg.n = 1 /\ cfg.entry = "save") =>
            /\ IsPrefix(trace[r], OneRankTrace)
            /\ Has(trace[r], "set_up_planner") =>
                 setup_flags[r] = [planner |-> {TRUE}, writer |-> {TRUE}]
            /\ Has(trace[r], "create_global_plan") =>
                 /\ Len(GatherSeq(gathered)) = 1
                 /\ GatherSeq(gathered)[1].rank = r
                 /\ GatherSeq(gathered)[1].stage = "prepared"
            /\ Has(trace[r], "finish_plan") =>
                 central_plan[r].stage = "global_prepared"
            /\ tpc[r] = "done" =>
                 /\ trace[r] = OneRankTrace
                 /\ ret[r] = Value(OneRankMetadata)

C12_Witness ==
    cfg.n = 1 /\ cfg.entry = "save" /\ ~cfg.dist_initialized /\ tpc[0] = "done"

C12_WitnessGroupOfOne ==
    cfg.n = 1 /\ cfg.entry = "save" /\ cfg.dist_initialized /\ tpc[0] = "done"

(* ------------------------------ C13 ------------------------------------ *)

\* C13: _stateful_to_state_dict returns a mapping with exactly the keys of
\* its input, in which a stateful value is replaced by the snapshot of that
\* object and every other value is the input's value; the call leaves the
\* input mapping and the data of the objects as they were.
C13_StatefulResolution ==
    /\ [](stateful_state_dict # Null =>
            /\ DOMAIN stateful_state_dict = DOMAIN resolve_input
            /\ \A k \in DOMAIN resolve_input :
                 IF resolve_input[k].kind = "stateful"
                 THEN stateful_state_dict[k] =
                        [kind |-> "snapshot", cell |-> resolve_input[k].cell]
                 ELSE stateful_state_dict[k] = resolve_input[k])
    /\ [][stateful_state_dict' # stateful_state_dict =>
            resolve_input' = resolve_input /\ heap' = heap]_vars

C13_Witness ==
    /\ stateful_state_dict # Null
    /\ \E k \in DOMAIN resolve_input : resolve_input[k].kind = "stateful"
    /\ \E k \in DOMAIN resolve_input : resolve_input[k].kind = "plain"

(* ------------------------------ C14 ------------------------------------ *)

\* C14: on the asynchronous path the state handed to the staging step, by a
\* Stager or by the generic offload, contains no unresolved stateful object,
\* and neither does the staged state the background save receives, so no
\* snapshot method is left to be invoked once async_save has returned.
C14_ResolvedBeforeStaging ==
    \A r \in Ranks :
        (IsAsync /\ Has(ctrace[r], "stage")) =>
            /\ \A k \in Keys :
                 stage_arg(cfg.writer, CallerStateDict)[k].kind # "stateful"
            /\ \A k \in Keys : cpu_state_dict[r][k].kind # "stateful"

(* ------------------------------ C15 ------------------------------------ *)

AsyncSteps == {"stage", "submit", "synchronize", "return"}

\* C15: in async_save staging has returned on the caller's thread before the
\* save is submitted to the executor; synchronize() is called exactly when
\* the writer is a Stager with synchronize_after_execute set, after the
\* submission, and async_save returns only when it has completed.
C15_AsyncStepOrder ==
    \A r \in Ranks :
        IsAsync =>
            /\ IsPrefix(Restrict(ctrace[r], AsyncSteps),
                        IF cfg.writer = "stager_sync"
                        THEN <<"stage", "submit", "synchronize", "return">>
                        ELSE <<"stage", "submit", "return">>)
            /\ (handle[r].state # "none" \/ tpc[r] # "idle") =>
                 /\ Has(ctrace[r], "submit")
                 /\ cpu_state_dict[r] # Null
            /\ cpc[r] = "returned" =>
                 /\ Has(ctrace[r], "return")
                 /\ Has(ctrace[r], "synchronize") <=> cfg.writer = "stager_sync"
                 /\ cfg.writer = "stager_sync" => ~copy_pending[r]

C15_Witness ==
    \E r \in Ranks :
        /\ IsAsync /\ cfg.writer = "stager_sync" /\ cpc[r] = "returned"
        /\ Has(ctrace[r], "synchronize")

C15_WitnessNoSynchronize ==
    \E r \in Ranks :
        /\ IsAsync /\ cfg.writer = "stager" /\ cpc[r] = "returned"
        /\ ~Has(ctrace[r], "synchronize")

(* ------------------------------ C16 ------------------------------------ *)

TaskFinished(r) == handle[r].state \in {"resolved", "failed"}

C16_WitnessResolved ==
    \E r \in Ranks :
        /\ handle[r].state = "resolved" /\ executor[r] = "shutdown"
        /\ next_call[r] = "finished"

C16_WitnessOwnExecutor ==
    \E r \in Ranks :
        ~cfg.executor_supplied /\ TaskFinished(r) /\ executor[r] = "shutdown"

(* ------------------------------ C17 ------------------------------------ *)

\* C17: every async_save that is given the same caller-supplied executor,
\* whether the earlier task on it is still running or has finished, submits
\* its task and returns a handle.
C17_SuppliedRunnerReusable ==
    \A r \in Ranks :
        (IsAsync /\ cfg.executor_supplied) =>
            /\ next_call[r] # "raised"
            /\ (cpc[r] = "returned" /\ next_call[r] = "none") =>
                 submit_ok(executor[r])

(* ------------------------------ C18 ------------------------------------ *)

\* Whether save, called in the same environment, makes rank r coordinator.
SaveCoordinator(r) ==
    is_coordinator(~no_dist_of(cfg.dist_initialized), r, coordinator_rank)

\* The steps save runs on rank r up to where the run of rank r has got.
SaveSteps(r) ==
    <<"set_up_planner", "set_up_storage_writer", "create_local_plan",
      "prepare_local_plan">>
    \o (IF SaveCoordinator(r)
        THEN <<"create_global_plan", "prepare_global_plan">> ELSE <<>>)
    \o <<"finish_plan", "write_data", "wait", "value">>
    \o (IF SaveCoordinator(r) THEN <<"finish">> ELSE <<>>)

\* C18: save_state_dict resets the writer before any planner or writer step
\* and then does what save does for the same arguments: the same steps on
\* the same resolved state, the same metadata returned, also with stateful
\* objects in the state and with no backend initialized (where save does not
\* fail for want of a process group).
C18_LegacySameAsSave ==
    \A r \in Ranks :
        IsLegacy =>
            /\ trace[r] # <<>> =>
                 /\ trace[r][1] = "reset"
                 /\ IsPrefix(Tail(trace[r]), SaveSteps(r))
            /\ state_dict[r] # Null =>
                 state_dict[r] = stateful_to_state_dict(CallerStateDict)
            /\ cpc[r] = "returned" =>
                 /\ ret[r].value = SaveMetadata([q \in Ranks |-> CallerStateDict])
                 /\ Tail(trace[r]) = SaveSteps(r)
            /\ cpc[r] = "raised" => ret[r] # Raise("dist_uninitialized")

(* ------------------------------ C19 ------------------------------------ *)

\* finish_checkpoint is about to run or has run on rank r.
FinishReached(r) ==
    \/ /\ IsCoordinator(r) /\ tpc[r] = "write_wait"
       /\ AllPresent(write_results) /\ broadcast = Null
    \/ Has(trace[r], "finish")

TaskError(r) == IF IsAsync THEN handle[r].value ELSE ret[r].value

\* C19: whenever finish_checkpoint runs on a rank, global_step has run on
\* that rank in the same invocation and has set global_metatadata to the
\* metadata of this checkpoint's plans: the assertion never fails, and the
\* variable is never set by anything but this invocation's global step.
C19_FinishAssertionHolds ==
    \A r \in Ranks :
        /\ FinishReached(r) =>
             /\ global_metatadata[r] # Null
             /\ Has(trace[r], "create_global_plan")
             /\ global_metatadata[r] =
                  create_global_plan(GatherSeq(gathered)).metadata
        /\ global_metatadata[r] # Null => Has(trace[r], "create_global_plan")
        /\ tpc[r] = "failed" => TaskError(r) # Err("AssertionError")

C19_Witness ==
    \E r \in Ranks :
        cfg.n >= 2 /\ Has(trace[r], "finish") /\ global_metatadata[r] # Null

C19_WitnessNoBackend ==
    ~cfg.dist_initialized /\ Has(trace[0], "finish")

(* ------------------------------ C20 ------------------------------------ *)

\* C20: with a Stager whose synchronize_after_execute is set, write_data of
\* the background save does not start before the caller's synchronize() has
\* completed, that is before the staging copy is complete.
C20_WriteAfterSynchronize ==
    \A r \in Ranks :
        (IsAsync /\ cfg.writer = "stager_sync" /\ Has(trace[r], "write_data")) =>
            /\ Has(ctrace[r], "synchronize")
            /\ ~copy_pending[r]

====
